---- MODULE Spec2Model ----
(***************************************************************************)
(* OrderBookTracker (hummingbot/core/data_type/order_book_tracker.py):     *)
(* the tasks of one tracker on one asyncio event loop.  Every action is    *)
(* what one task does between two suspension points (queue get, sleep,     *)
(* awaited directory query).                                               *)
(***************************************************************************)
EXTENDS Integers, Sequences, FiniteSets, TLC

\* ------------------------------------------------------------------ bounds
Instruments == {"A", "B"}
MaxUid == 2          \* update ids of received messages: up to MaxUid
MaxMessages == 1     \* messages the listeners receive in a whole lifecycle
MaxRouted == 2       \* messages the listeners receive while the set is fixed
MaxCycles == 2       \* directory queries the refresher starts
MaxFailures == 1     \* failures raised by Book State / directory calls
LongRun == 34        \* diffs of the long single-instrument run
ReplayLen == 3       \* diffs received ahead of a snapshot

\* ------------------------------------------------------- program constants
PAST_DIFF_WINDOW_SIZE == 32

None == "None"

TaskNames ==
  { "emit_trade_event_task",
    "order_book_diff_listener_task",
    "order_book_trade_listener_task",
    "order_book_snapshot_listener_task",
    "order_book_diff_router_task",
    "order_book_snapshot_router_task",
    "refresh_tracking_task" }

VARIABLES
  tasks,                      \* task handle -> "None" | "Running" | "Recovering" | "Cancelled"
  tracking_tasks,             \* _tracking_tasks: instrument -> worker locals
  order_books,                \* _order_books: instrument -> Book State
  tracking_message_queues,    \* _tracking_message_queues: instrument -> FIFO
  past_diffs_windows,         \* _past_diffs_windows: instrument -> deque
  order_book_diff_stream,     \* _order_book_diff_stream
  order_book_snapshot_stream, \* _order_book_snapshot_stream
  order_book_trade_stream,    \* _order_book_trade_stream
  trading_pairs,              \* data_source._trading_pairs (None or a list)
  diff_router,                \* locals of _order_book_diff_router
  trade_emitter,              \* locals of _emit_trade_event_loop
  refresher,                  \* locals and position of _refresh_tracking_loop
  env,                        \* what the environment has done so far (bounds)
  stopped,                    \* history: stop() has been called
  processed,                  \* history: instrument -> messages its Worker applied
  discarded                   \* history: instrument -> receipt stamps of the
                              \* messages that waited in its queue or buffer
                              \* when its tracking was removed

vars ==
  << tasks, tracking_tasks, order_books, tracking_message_queues,
     past_diffs_windows, order_book_diff_stream, order_book_snapshot_stream,
     order_book_trade_stream, trading_pairs, diff_router, trade_emitter,
     refresher, env, stopped, processed, discarded >>

\* ------------------------------------------------------------ dictionaries
\* d[k] = v
DictSet(d, k, v) == [x \in DOMAIN d \cup {k} |-> IF x = k THEN v ELSE d[x]]

\* del d[k] for every k in ks
DictDel(d, ks) == [x \in DOMAIN d \ ks |-> d[x]]

EmptyDict == [x \in {} |-> None]

\* ---------------------------------------------------------------- messages
\* OrderBookMessage.  bids/asks are identified by the update id; timestamp is
\* the receipt order within the message's stream.
DiffMessage(tp, uid, ts) ==
  [type |-> "DIFF", trading_pair |-> tp, update_id |-> uid, timestamp |-> ts]

SnapshotMessage(tp, uid, ts) ==
  [type |-> "SNAPSHOT", trading_pair |-> tp, update_id |-> uid, timestamp |-> ts]

TradeMessage(tp, side, ts) ==
  [type |-> "TRADE", trading_pair |-> tp, trade_type |-> side, timestamp |-> ts]

TradeTypes == {"BUY", "SELL"}

\* -------------------------------------------------------------- Book State
\* The order book the directory hands out for a new instrument.
NewOrderBook == [snapshot_uid |-> 0, base |-> 0, diffs |-> <<>>, trades |-> <<>>]

\* OrderBook.apply_diffs(bids, asks, update_id)
apply_diffs(book, update_id) ==
  [book EXCEPT !.snapshot_uid = update_id, !.diffs = Append(@, update_id)]

\* the diffs of a list with update_id > uid, ascending by update_id
RECURSIVE InsertAscending(_, _)
InsertAscending(sorted, d) ==
  IF sorted = <<>> THEN <<d>>
  ELSE IF Head(sorted).update_id <= d.update_id
       THEN <<Head(sorted)>> \o InsertAscending(Tail(sorted), d)
       ELSE <<d>> \o sorted

RECURSIVE ReplayDiffs(_, _)
ReplayDiffs(past_diffs, uid) ==
  IF past_diffs = <<>> THEN <<>>
  ELSE LET d == past_diffs[Len(past_diffs)]
           rest == ReplayDiffs(SubSeq(past_diffs, 1, Len(past_diffs) - 1), uid)
       IN IF d.update_id > uid THEN InsertAscending(rest, d) ELSE rest

RECURSIVE ApplyAll(_, _)
ApplyAll(book, ds) ==
  IF ds = <<>> THEN book
  ELSE ApplyAll(apply_diffs(book, Head(ds).update_id), Tail(ds))

\* OrderBook.restore_from_snapshot_and_diffs(snapshot, diffs)
restore_from_snapshot_and_diffs(book, snapshot, past_diffs) ==
  ApplyAll([book EXCEPT !.snapshot_uid = snapshot.update_id,
                        !.base = snapshot.update_id,
                        !.diffs = <<>>],
           ReplayDiffs(past_diffs, snapshot.update_id))

\* OrderBook.apply_trade(OrderBookTradeEvent)
apply_trade(book, event) == [book EXCEPT !.trades = Append(@, event)]

\* ------------------------------------------------------------------- Init
\* data_source._trading_pairs: None or a list
NoneList == [none |-> TRUE, list |-> <<>>]
List(l) == [none |-> FALSE, list |-> l]

streams ==
  << order_book_diff_stream, order_book_snapshot_stream, order_book_trade_stream >>

NoCounters == [messages_accepted |-> 0, messages_rejected |-> 0]

\* OrderBookTracker.__init__, with the data source's pairs and the number of
\* messages the listeners are going to receive
Constructed(pairs, budget) ==
  /\ tasks = [t \in TaskNames |-> None]
  /\ tracking_tasks = EmptyDict
  /\ order_books = EmptyDict
  /\ tracking_message_queues = EmptyDict
  /\ past_diffs_windows = EmptyDict
  /\ order_book_diff_stream = <<>>
  /\ order_book_snapshot_stream = <<>>
  /\ order_book_trade_stream = <<>>
  /\ trading_pairs = pairs
  /\ diff_router = NoCounters
  /\ trade_emitter = NoCounters
  /\ refresher = [pc |-> "query", tracking_trading_pairs |-> {},
                  available_trading_pairs |-> {}]
  /\ env = [messages |-> 0, cycles |-> 0, failures |-> 0, budget |-> budget]
  /\ stopped = FALSE
  /\ processed = EmptyDict
  /\ discarded = [tp \in Instruments |-> {}]

Init == Constructed(NoneList, MaxMessages)

\* ------------------------------------------------------------ start / stop
\* OrderBookTracker.start: launches the Trade Emitter.  The owner starts a
\* tracker once.
start ==
  /\ ~stopped
  /\ tasks["emit_trade_event_task"] = None
  /\ tasks' = [tasks EXCEPT !["emit_trade_event_task"] = "Running"]
  /\ trade_emitter' = NoCounters
  /\ UNCHANGED << tracking_tasks, order_books, tracking_message_queues,
                  past_diffs_windows, streams, trading_pairs, diff_router,
                  refresher, env, stopped, processed, discarded >>

DerivedTasks == TaskNames \ {"emit_trade_event_task"}

\* start() of the derived trackers: after super().start(), launches the
\* listeners, the Routers and the Refresher.
start_derived ==
  /\ ~stopped
  /\ tasks["emit_trade_event_task"] # None
  /\ \A t \in DerivedTasks : tasks[t] = None
  /\ tasks' = [t \in TaskNames |-> IF t \in DerivedTasks THEN "Running" ELSE tasks[t]]
  /\ diff_router' = NoCounters
  /\ UNCHANGED << tracking_tasks, order_books, tracking_message_queues,
                  past_diffs_windows, streams, trading_pairs, trade_emitter,
                  refresher, env, stopped, processed, discarded >>

\* the task handles stop() cancels and resets
StopCancels ==
  { "emit_trade_event_task",
    "order_book_diff_listener_task",
    "order_book_snapshot_listener_task",
    "refresh_tracking_task",
    "order_book_diff_router_task",
    "order_book_snapshot_router_task" }

\* OrderBookTracker.stop
stop ==
  /\ tasks' = [t \in TaskNames |->
                 IF t \in StopCancels /\ tasks[t] # None /\ tasks[t] # "Cancelled"
                 THEN "Cancelled" ELSE tasks[t]]
  /\ stopped' = TRUE
  /\ UNCHANGED << tracking_tasks, order_books, tracking_message_queues,
                  past_diffs_windows, streams, trading_pairs, diff_router,
                  trade_emitter, refresher, env, processed, discarded >>

\* a readiness test without the "at least one book" part
ready_WithoutBooks ==
  LET pairs == IF trading_pairs.none THEN <<>> ELSE trading_pairs.list
  IN Len(pairs) <= Cardinality(DOMAIN order_books)

\* OrderBookTracker.ready
ready ==
  LET pairs == IF trading_pairs.none THEN <<>> ELSE trading_pairs.list
  IN Len(pairs) <= Cardinality(DOMAIN order_books)
       /\ Cardinality(DOMAIN order_books) > 0

\* ------------------------------------------------------------- Refresher
\* asyncio.Task.done() of a Worker
done(worker) == worker.pc \notin {"Created", "Running", "Recovering"}

\* safe_ensure_future(self._track_single_book(trading_pair))
NewWorker == [pc |-> "Created"]

\* "set([key for key in self._tracking_tasks.keys()
\*       if not self._tracking_tasks[key].done()])"
TrackingTradingPairs ==
  {key \in DOMAIN tracking_tasks : ~done(tracking_tasks[key])}

\* _refresh_tracking_tasks up to the awaited directory query
RefreshQuery ==
  /\ tasks["refresh_tracking_task"] = "Running"
  /\ refresher.pc = "query"
  /\ env.cycles < MaxCycles
  /\ refresher' = [refresher EXCEPT
                     !.pc = "awaiting",
                     !.tracking_trading_pairs = TrackingTradingPairs]
  /\ env' = [env EXCEPT !.cycles = @ + 1]
  /\ UNCHANGED << tasks, tracking_tasks, order_books, tracking_message_queues,
                  past_diffs_windows, streams, trading_pairs, diff_router,
                  trade_emitter, stopped, processed, discarded >>

\* "for trading_pair in new_trading_pairs: d[trading_pair] = v"
AddPairs(d, new_trading_pairs, v) ==
  [x \in DOMAIN d \cup new_trading_pairs |->
     IF x \in new_trading_pairs THEN v ELSE d[x]]

\* a refresh that forgets to drop what the directory no longer lists
DelPairs_Forgotten(d, deleted_trading_pairs) == d

\* "for trading_pair in deleted_trading_pairs: del d[trading_pair]"
DelPairs(d, deleted_trading_pairs) == DictDel(d, deleted_trading_pairs)

\* the receipt stamps of the messages of a sequence
Stamps(messages) == {messages[i].timestamp : i \in DOMAIN messages}

\* history: the messages (by receipt stamp) that wait in the queue and the
\* buffer of every instrument the cycle stops tracking
Discard(deleted_trading_pairs) ==
  [tp \in DOMAIN discarded |->
     discarded[tp]
       \cup (IF tp \in deleted_trading_pairs
             THEN Stamps(tracking_message_queues[tp])
                    \cup (IF tp \in DOMAIN past_diffs_windows
                          THEN Stamps(past_diffs_windows[tp]) ELSE {})
             ELSE {})]

\* a refresh whose deleting loop leaves the Book State in its map
RefreshComplete_KeepsBooks(available_pairs) ==
  /\ tasks["refresh_tracking_task"] = "Running"
  /\ refresher.pc = "awaiting"
  /\ LET tracking_trading_pairs == refresher.tracking_trading_pairs
         available_trading_pairs == available_pairs
         new_trading_pairs == available_trading_pairs \ tracking_trading_pairs
         deleted_trading_pairs == tracking_trading_pairs \ available_trading_pairs
     IN /\ order_books' = AddPairs(order_books, new_trading_pairs, NewOrderBook)
        /\ tracking_message_queues' =
             DelPairs(AddPairs(tracking_message_queues, new_trading_pairs, <<>>),
                      deleted_trading_pairs)
        /\ tracking_tasks' =
             DelPairs(AddPairs(tracking_tasks, new_trading_pairs, NewWorker),
                      deleted_trading_pairs)
        /\ refresher' = [refresher EXCEPT
                           !.pc = "sleeping",
                           !.available_trading_pairs = available_trading_pairs]
        /\ discarded' = Discard(deleted_trading_pairs)
  /\ UNCHANGED << tasks, past_diffs_windows, streams, trading_pairs,
                  diff_router, trade_emitter, env, stopped, processed >>

\* _refresh_tracking_tasks from the directory's answer to its end, then the
\* loop's sleep(3600) begins
RefreshComplete(available_pairs) ==
  /\ tasks["refresh_tracking_task"] = "Running"
  /\ refresher.pc = "awaiting"
  /\ LET tracking_trading_pairs == refresher.tracking_trading_pairs
         available_trading_pairs == available_pairs
         new_trading_pairs == available_trading_pairs \ tracking_trading_pairs
         deleted_trading_pairs == tracking_trading_pairs \ available_trading_pairs
     IN /\ order_books' =
             DelPairs(AddPairs(order_books, new_trading_pairs, NewOrderBook),
                      deleted_trading_pairs)
        /\ tracking_message_queues' =
             DelPairs(AddPairs(tracking_message_queues, new_trading_pairs, <<>>),
                      deleted_trading_pairs)
        /\ tracking_tasks' =
             DelPairs(AddPairs(tracking_tasks, new_trading_pairs, NewWorker),
                      deleted_trading_pairs)
        /\ refresher' = [refresher EXCEPT
                           !.pc = "sleeping",
                           !.available_trading_pairs = available_trading_pairs]
        /\ discarded' = Discard(deleted_trading_pairs)
  /\ UNCHANGED << tasks, past_diffs_windows, streams, trading_pairs,
                  diff_router, trade_emitter, env, stopped, processed >>

\* the directory query raises: the loop logs and begins sleep(5)
RefreshFail ==
  /\ tasks["refresh_tracking_task"] = "Running"
  /\ refresher.pc = "awaiting"
  /\ env.failures < MaxFailures
  /\ tasks' = [tasks EXCEPT !["refresh_tracking_task"] = "Recovering"]
  /\ env' = [env EXCEPT !.failures = @ + 1]
  /\ UNCHANGED << tracking_tasks, order_books, tracking_message_queues,
                  past_diffs_windows, streams, trading_pairs, diff_router,
                  trade_emitter, refresher, stopped, processed, discarded >>

\* a retry delay that runs into the hourly sleep instead of a new cycle
RefreshRecover_SleepsOn ==
  /\ tasks["refresh_tracking_task"] = "Recovering"
  /\ tasks' = [tasks EXCEPT !["refresh_tracking_task"] = "Running"]
  /\ refresher' = [refresher EXCEPT !.pc = "sleeping"]
  /\ UNCHANGED << tracking_tasks, order_books, tracking_message_queues,
                  past_diffs_windows, streams, trading_pairs, diff_router,
                  trade_emitter, env, stopped, processed, discarded >>

\* sleep(5) is over: the loop runs _refresh_tracking_tasks again
RefreshRecover ==
  /\ tasks["refresh_tracking_task"] = "Recovering"
  /\ tasks' = [tasks EXCEPT !["refresh_tracking_task"] = "Running"]
  /\ refresher' = [refresher EXCEPT !.pc = "query"]
  /\ UNCHANGED << tracking_tasks, order_books, tracking_message_queues,
                  past_diffs_windows, streams, trading_pairs, diff_router,
                  trade_emitter, env, stopped, processed, discarded >>

\* sleep(3600) is over
RefreshWake ==
  /\ tasks["refresh_tracking_task"] = "Running"
  /\ refresher.pc = "sleeping"
  /\ refresher' = [refresher EXCEPT !.pc = "query"]
  /\ UNCHANGED << tasks, tracking_tasks, order_books, tracking_message_queues,
                  past_diffs_windows, streams, trading_pairs, diff_router,
                  trade_emitter, env, stopped, processed, discarded >>

\* -------------------------------------------------------------- listeners
\* The listener tasks of the data source feed the three global streams.
Received == env' = [env EXCEPT !.messages = @ + 1]

ListenDiff(tp, uid) ==
  /\ tasks["order_book_diff_listener_task"] = "Running"
  /\ env.messages < env.budget
  /\ order_book_diff_stream' =
       Append(order_book_diff_stream, DiffMessage(tp, uid, env.messages + 1))
  /\ Received
  /\ UNCHANGED << tasks, tracking_tasks, order_books, tracking_message_queues,
                  past_diffs_windows, order_book_snapshot_stream,
                  order_book_trade_stream, trading_pairs, diff_router,
                  trade_emitter, refresher, stopped, processed, discarded >>

ListenSnapshot(tp, uid) ==
  /\ tasks["order_book_snapshot_listener_task"] = "Running"
  /\ env.messages < env.budget
  /\ order_book_snapshot_stream' =
       Append(order_book_snapshot_stream,
              SnapshotMessage(tp, uid, env.messages + 1))
  /\ Received
  /\ UNCHANGED << tasks, tracking_tasks, order_books, tracking_message_queues,
                  past_diffs_windows, order_book_diff_stream,
                  order_book_trade_stream, trading_pairs, diff_router,
                  trade_emitter, refresher, stopped, processed, discarded >>

ListenTrade(tp, side) ==
  /\ tasks["order_book_trade_listener_task"] = "Running"
  /\ env.messages < env.budget
  /\ order_book_trade_stream' =
       Append(order_book_trade_stream, TradeMessage(tp, side, env.messages + 1))
  /\ Received
  /\ UNCHANGED << tasks, tracking_tasks, order_books, tracking_message_queues,
                  past_diffs_windows, order_book_diff_stream,
                  order_book_snapshot_stream, trading_pairs, diff_router,
                  trade_emitter, refresher, stopped, processed, discarded >>

\* ---------------------------------------------------------------- routers
\* "if int(now / 60.0) > int(last_message_timestamp / 60.0)": the counters
\* are reported and reset.  rolled: the clock has passed a minute boundary
\* since the task's previous accepted message.
Reported(locals, rolled) ==
  IF rolled
  THEN [locals EXCEPT !.messages_accepted = 0, !.messages_rejected = 0]
  ELSE locals

\* a router that keeps the key of the first instrument it tracks
TradingPairOf_Stuck(ob_message) == "A"

\* "trading_pair: str = ob_message.trading_pair"
TradingPairOf(ob_message) == ob_message.trading_pair

\* a staleness test that also turns away a diff at the book's own update id
IsStale_OrEqual(order_book, ob_message) ==
  order_book.snapshot_uid >= ob_message.update_id

\* a staleness test with the comparison turned round
IsStale_Reversed(order_book, ob_message) ==
  order_book.snapshot_uid < ob_message.update_id

\* "if order_book.snapshot_uid > ob_message.update_id"
IsStale(order_book, ob_message) == order_book.snapshot_uid > ob_message.update_id

\* a queue that hands out the newest message first
Put_Front(message_queue, ob_message) == <<ob_message>> \o message_queue

\* "await message_queue.put(ob_message)"
Put(message_queue, ob_message) == Append(message_queue, ob_message)

\* a diff router that registers a queue for an instrument it does not know
DiffRouterStep_Registering(rolled) ==
  /\ tasks["order_book_diff_router_task"] = "Running"
  /\ order_book_diff_stream # <<>>
  /\ LET ob_message == Head(order_book_diff_stream)
         trading_pair == TradingPairOf(ob_message)
     IN /\ order_book_diff_stream' = Tail(order_book_diff_stream)
        /\ IF trading_pair \notin DOMAIN tracking_message_queues
           THEN /\ diff_router' = [diff_router EXCEPT !.messages_accepted = @ + 1]
                /\ tracking_message_queues' =
                     DictSet(tracking_message_queues, trading_pair, <<ob_message>>)
           ELSE IF IsStale(order_books[trading_pair], ob_message)
           THEN /\ diff_router' = [diff_router EXCEPT !.messages_rejected = @ + 1]
                /\ UNCHANGED tracking_message_queues
           ELSE /\ tracking_message_queues' =
                     [tracking_message_queues EXCEPT
                        ![trading_pair] = Put(@, ob_message)]
                /\ diff_router' =
                     Reported([diff_router EXCEPT !.messages_accepted = @ + 1],
                              rolled)
  /\ UNCHANGED << tasks, tracking_tasks, order_books, past_diffs_windows,
                  order_book_snapshot_stream, order_book_trade_stream,
                  trading_pairs, trade_emitter, refresher, env, stopped,
                  processed, discarded >>

\* one iteration of the loop of _order_book_diff_router
DiffRouterStep(rolled) ==
  /\ tasks["order_book_diff_router_task"] = "Running"
  /\ order_book_diff_stream # <<>>
  /\ LET ob_message == Head(order_book_diff_stream)
         trading_pair == TradingPairOf(ob_message)
     IN /\ order_book_diff_stream' = Tail(order_book_diff_stream)
        /\ IF trading_pair \notin DOMAIN tracking_message_queues
           THEN /\ diff_router' = [diff_router EXCEPT !.messages_rejected = @ + 1]
                /\ UNCHANGED tracking_message_queues
           ELSE IF IsStale(order_books[trading_pair], ob_message)
           THEN /\ diff_router' = [diff_router EXCEPT !.messages_rejected = @ + 1]
                /\ UNCHANGED tracking_message_queues
           ELSE /\ tracking_message_queues' =
                     [tracking_message_queues EXCEPT
                        ![trading_pair] = Put(@, ob_message)]
                /\ diff_router' =
                     Reported([diff_router EXCEPT !.messages_accepted = @ + 1],
                              rolled)
  /\ UNCHANGED << tasks, tracking_tasks, order_books, past_diffs_windows,
                  order_book_snapshot_stream, order_book_trade_stream,
                  trading_pairs, trade_emitter, refresher, env, stopped,
                  processed, discarded >>

\* a snapshot router with the diff router's staleness test
SnapshotRouterStep_DropsStale ==
  /\ tasks["order_book_snapshot_router_task"] = "Running"
  /\ order_book_snapshot_stream # <<>>
  /\ LET ob_message == Head(order_book_snapshot_stream)
         trading_pair == TradingPairOf(ob_message)
     IN /\ order_book_snapshot_stream' = Tail(order_book_snapshot_stream)
        /\ IF trading_pair \notin DOMAIN tracking_message_queues
           THEN UNCHANGED tracking_message_queues
           ELSE IF IsStale(order_books[trading_pair], ob_message)
           THEN UNCHANGED tracking_message_queues
           ELSE tracking_message_queues' =
                  [tracking_message_queues EXCEPT
                     ![trading_pair] = Put(@, ob_message)]
  /\ UNCHANGED << tasks, tracking_tasks, order_books, past_diffs_windows,
                  order_book_diff_stream, order_book_trade_stream,
                  trading_pairs, diff_router, trade_emitter, refresher, env,
                  stopped, processed, discarded >>

\* one iteration of the loop of _order_book_snapshot_router
SnapshotRouterStep ==
  /\ tasks["order_book_snapshot_router_task"] = "Running"
  /\ order_book_snapshot_stream # <<>>
  /\ LET ob_message == Head(order_book_snapshot_stream)
         trading_pair == TradingPairOf(ob_message)
     IN /\ order_book_snapshot_stream' = Tail(order_book_snapshot_stream)
        /\ IF trading_pair \notin DOMAIN tracking_message_queues
           THEN UNCHANGED tracking_message_queues
           ELSE tracking_message_queues' =
                  [tracking_message_queues EXCEPT
                     ![trading_pair] = Put(@, ob_message)]
  /\ UNCHANGED << tasks, tracking_tasks, order_books, past_diffs_windows,
                  order_book_diff_stream, order_book_trade_stream,
                  trading_pairs, diff_router, trade_emitter, refresher, env,
                  stopped, processed, discarded >>

\* ---------------------------------------------------------- Trade Emitter
\* OrderBookTradeEvent(...): "TradeType.SELL if ... else TradeType.SELL";
\* price and amount pass through unchanged and are left out
TradeEvent(trade_message) ==
  [trading_pair |-> trade_message.trading_pair,
   timestamp |-> trade_message.timestamp,
   type |-> IF trade_message.trade_type = "SELL" THEN "SELL" ELSE "SELL"]

\* one iteration of the loop of _emit_trade_event_loop
EmitTradeStep(rolled) ==
  /\ tasks["emit_trade_event_task"] = "Running"
  /\ order_book_trade_stream # <<>>
  /\ LET trade_message == Head(order_book_trade_stream)
         trading_pair == TradingPairOf(trade_message)
     IN /\ order_book_trade_stream' = Tail(order_book_trade_stream)
        /\ IF trading_pair \notin DOMAIN order_books
           THEN /\ trade_emitter' =
                     [trade_emitter EXCEPT !.messages_rejected = @ + 1]
                /\ UNCHANGED order_books
           ELSE /\ order_books' =
                     [order_books EXCEPT
                        ![trading_pair] = apply_trade(@, TradeEvent(trade_message))]
                /\ trade_emitter' =
                     Reported([trade_emitter EXCEPT !.messages_accepted = @ + 1],
                              rolled)
  /\ UNCHANGED << tasks, tracking_tasks, tracking_message_queues,
                  past_diffs_windows, order_book_diff_stream,
                  order_book_snapshot_stream, trading_pairs, diff_router,
                  refresher, env, stopped, processed, discarded >>

\* an emitter that looks the Book State up without the membership test: the
\* lookup raises for an unknown instrument
EmitTradeFail_UnguardedLookup ==
  /\ tasks["emit_trade_event_task"] = "Running"
  /\ order_book_trade_stream # <<>>
  /\ env.failures < MaxFailures
  /\ order_book_trade_stream' = Tail(order_book_trade_stream)
  /\ tasks' = [tasks EXCEPT !["emit_trade_event_task"] = "Recovering"]
  /\ env' = [env EXCEPT !.failures = @ + 1]
  /\ UNCHANGED << tracking_tasks, order_books, tracking_message_queues,
                  past_diffs_windows, order_book_diff_stream,
                  order_book_snapshot_stream, trading_pairs, diff_router,
                  trade_emitter, refresher, stopped, processed, discarded >>

\* one iteration in which building the trade event or apply_trade raises
\* (both come after the lookup of the instrument's Book State): the message
\* is gone and not counted, the loop logs and begins sleep(5)
EmitTradeFail ==
  /\ tasks["emit_trade_event_task"] = "Running"
  /\ order_book_trade_stream # <<>>
  /\ TradingPairOf(Head(order_book_trade_stream)) \in DOMAIN order_books
  /\ env.failures < MaxFailures
  /\ order_book_trade_stream' = Tail(order_book_trade_stream)
  /\ tasks' = [tasks EXCEPT !["emit_trade_event_task"] = "Recovering"]
  /\ env' = [env EXCEPT !.failures = @ + 1]
  /\ UNCHANGED << tracking_tasks, order_books, tracking_message_queues,
                  past_diffs_windows, order_book_diff_stream,
                  order_book_snapshot_stream, trading_pairs, diff_router,
                  trade_emitter, refresher, stopped, processed, discarded >>

\* sleep(5) is over: back to order_book_trade_stream.get()
EmitTradeRecover ==
  /\ tasks["emit_trade_event_task"] = "Recovering"
  /\ tasks' = [tasks EXCEPT !["emit_trade_event_task"] = "Running"]
  /\ UNCHANGED << tracking_tasks, order_books, tracking_message_queues,
                  past_diffs_windows, streams, trading_pairs, diff_router,
                  trade_emitter, refresher, env, stopped, processed, discarded >>

\* ---------------------------------------------------- Per-Instrument Worker
\* a Worker that takes over the deque it finds under its instrument
WorkerStart_KeepsBuffer(trading_pair) ==
  /\ trading_pair \in DOMAIN tracking_tasks
  /\ tracking_tasks[trading_pair].pc = "Created"
  /\ past_diffs_windows' =
       IF trading_pair \in DOMAIN past_diffs_windows
       THEN past_diffs_windows
       ELSE DictSet(past_diffs_windows, trading_pair, <<>>)
  /\ tracking_tasks' =
       [tracking_tasks EXCEPT
          ![trading_pair] = [pc |-> "Running"]]
  /\ processed' = DictSet(processed, trading_pair, <<>>)
  /\ UNCHANGED << tasks, order_books, tracking_message_queues, streams,
                  trading_pairs, diff_router, trade_emitter, refresher, env,
                  stopped, discarded >>

\* _track_single_book before its loop.  The Worker's statistics
\* (diff_messages_accepted, last_message_timestamp) feed a debug log only and
\* are left out.
WorkerStart(trading_pair) ==
  /\ trading_pair \in DOMAIN tracking_tasks
  /\ tracking_tasks[trading_pair].pc = "Created"
  /\ past_diffs_windows' = DictSet(past_diffs_windows, trading_pair, <<>>)
  /\ tracking_tasks' =
       [tracking_tasks EXCEPT
          ![trading_pair] = [pc |-> "Running"]]
  /\ processed' = DictSet(processed, trading_pair, <<>>)
  /\ UNCHANGED << tasks, order_books, tracking_message_queues, streams,
                  trading_pairs, diff_router, trade_emitter, refresher, env,
                  stopped, discarded >>

\* an eviction loop that stops one entry too late
RECURSIVE Evicted_OneTooMany(_)
Evicted_OneTooMany(past_diffs_window) ==
  IF Len(past_diffs_window) > PAST_DIFF_WINDOW_SIZE + 1
  THEN Evicted_OneTooMany(Tail(past_diffs_window))
  ELSE past_diffs_window

\* "while len(past_diffs_window) > self.PAST_DIFF_WINDOW_SIZE: popleft()"
RECURSIVE Evicted(_)
Evicted(past_diffs_window) ==
  IF Len(past_diffs_window) > PAST_DIFF_WINDOW_SIZE
  THEN Evicted(Tail(past_diffs_window))
  ELSE past_diffs_window

\* past_diffs_window.append(message), then the eviction loop
Appended(past_diffs_window, message) ==
  Evicted(Append(past_diffs_window, message))

\* a replay list that misses the oldest buffered diff
PastDiffs_WithoutOldest(past_diffs_window) ==
  IF past_diffs_window = <<>> THEN <<>> ELSE Tail(past_diffs_window)

\* "past_diffs: List[OrderBookMessage] = list(past_diffs_window)"
PastDiffs(past_diffs_window) == past_diffs_window

\* "message = await message_queue.get()" returns in a running Worker
WorkerHasMessage(trading_pair) ==
  /\ trading_pair \in DOMAIN tracking_tasks
  /\ tracking_tasks[trading_pair].pc = "Running"
  /\ tracking_message_queues[trading_pair] # <<>>

\* one iteration of the loop of _track_single_book, message applied
WorkerStep(trading_pair) ==
  /\ WorkerHasMessage(trading_pair)
  /\ LET message == Head(tracking_message_queues[trading_pair])
         past_diffs_window == past_diffs_windows[trading_pair]
     IN /\ tracking_message_queues' =
             [tracking_message_queues EXCEPT ![trading_pair] = Tail(@)]
        /\ IF message.type = "DIFF"
           THEN /\ order_books' =
                     [order_books EXCEPT
                        ![trading_pair] = apply_diffs(@, message.update_id)]
                /\ past_diffs_windows' =
                     [past_diffs_windows EXCEPT
                        ![trading_pair] = Appended(past_diffs_window, message)]
           ELSE IF message.type = "SNAPSHOT"
           THEN /\ order_books' =
                     [order_books EXCEPT
                        ![trading_pair] =
                           restore_from_snapshot_and_diffs(
                             @, message, PastDiffs(past_diffs_window))]
                /\ UNCHANGED past_diffs_windows
           ELSE UNCHANGED << order_books, past_diffs_windows >>
        /\ processed' = [processed EXCEPT ![trading_pair] = Append(@, message)]
  /\ UNCHANGED << tasks, tracking_tasks, streams, trading_pairs, diff_router,
                  trade_emitter, refresher, env, stopped, discarded >>

\* a Worker without the handler of lines 253-255: the exception ends it
WorkerFail_Fatal(trading_pair) ==
  /\ WorkerHasMessage(trading_pair)
  /\ env.failures < MaxFailures
  /\ tracking_message_queues' =
       [tracking_message_queues EXCEPT ![trading_pair] = Tail(@)]
  /\ tracking_tasks' = [tracking_tasks EXCEPT ![trading_pair].pc = "Finished"]
  /\ env' = [env EXCEPT !.failures = @ + 1]
  /\ UNCHANGED << tasks, order_books, past_diffs_windows, streams,
                  trading_pairs, diff_router, trade_emitter, refresher,
                  stopped, processed, discarded >>

\* a Worker that buffers the diff before it applies it
WorkerFail_BuffersFirst(trading_pair) ==
  /\ WorkerHasMessage(trading_pair)
  /\ env.failures < MaxFailures
  /\ tracking_message_queues' =
       [tracking_message_queues EXCEPT ![trading_pair] = Tail(@)]
  /\ past_diffs_windows' =
       [past_diffs_windows EXCEPT
          ![trading_pair] =
             IF Head(tracking_message_queues[trading_pair]).type = "DIFF"
             THEN Appended(@, Head(tracking_message_queues[trading_pair]))
             ELSE @]
  /\ tracking_tasks' = [tracking_tasks EXCEPT ![trading_pair].pc = "Recovering"]
  /\ env' = [env EXCEPT !.failures = @ + 1]
  /\ UNCHANGED << tasks, order_books, streams, trading_pairs, diff_router,
                  trade_emitter, refresher, stopped, processed, discarded >>

\* one iteration in which the Book State call raises: the message is gone,
\* the loop logs and begins sleep(5)
WorkerFail(trading_pair) ==
  /\ WorkerHasMessage(trading_pair)
  /\ env.failures < MaxFailures
  /\ tracking_message_queues' =
       [tracking_message_queues EXCEPT ![trading_pair] = Tail(@)]
  /\ tracking_tasks' = [tracking_tasks EXCEPT ![trading_pair].pc = "Recovering"]
  /\ env' = [env EXCEPT !.failures = @ + 1]
  /\ UNCHANGED << tasks, order_books, past_diffs_windows, streams,
                  trading_pairs, diff_router, trade_emitter, refresher,
                  stopped, processed, discarded >>

\* a recovery delay that never ends
WorkerRecover_StaysDown(trading_pair) ==
  /\ trading_pair \in DOMAIN tracking_tasks
  /\ tracking_tasks[trading_pair].pc = "Recovering"
  /\ UNCHANGED vars

\* sleep(5) is over: back to message_queue.get()
WorkerRecover(trading_pair) ==
  /\ trading_pair \in DOMAIN tracking_tasks
  /\ tracking_tasks[trading_pair].pc = "Recovering"
  /\ tracking_tasks' = [tracking_tasks EXCEPT ![trading_pair].pc = "Running"]
  /\ UNCHANGED << tasks, order_books, tracking_message_queues,
                  past_diffs_windows, streams, trading_pairs, diff_router,
                  trade_emitter, refresher, env, stopped, processed, discarded >>

\* ------------------------------------------------------- the whole tracker
Uids == 1..MaxUid

Listen ==
  \/ \E tp \in Instruments, uid \in Uids : ListenDiff(tp, uid)
  \/ \E tp \in Instruments, uid \in Uids : ListenSnapshot(tp, uid)
  \/ \E tp \in Instruments, side \in TradeTypes : ListenTrade(tp, side)

Route ==
  \/ \E rolled \in BOOLEAN : DiffRouterStep(rolled)
  \/ SnapshotRouterStep
  \/ \E rolled \in BOOLEAN : EmitTradeStep(rolled)

Work ==
  \/ \E tp \in Instruments : WorkerStart(tp)
  \/ \E tp \in Instruments : WorkerStep(tp)

Recovery ==
  \/ \E tp \in Instruments : WorkerFail(tp)
  \/ \E tp \in Instruments : WorkerRecover(tp)
  \/ EmitTradeFail
  \/ EmitTradeRecover

Refresh ==
  \/ RefreshQuery
  \/ \E available_pairs \in SUBSET Instruments : RefreshComplete(available_pairs)
  \/ RefreshFail
  \/ RefreshRecover
  \/ RefreshWake

Next ==
  \/ start
  \/ start_derived
  \/ stop
  \/ Refresh
  \/ Listen
  \/ Route
  \/ Work
  \/ Recovery

Spec == Init /\ [][Next]_vars

\* ------------------------------------------------- a fixed tracked set
\* The tracker after start() and the Refresher's first cycle, in which the
\* directory answered `pairs`: the Workers have reached their loops, the
\* Refresher sleeps for the next hour, no message has been received yet.
Tracking(pairs, budget) ==
  /\ tasks = [t \in TaskNames |-> "Running"]
  /\ tracking_tasks = [tp \in pairs |-> [pc |-> "Running"]]
  /\ order_books = [tp \in pairs |-> NewOrderBook]
  /\ tracking_message_queues = [tp \in pairs |-> <<>>]
  /\ past_diffs_windows = [tp \in pairs |-> <<>>]
  /\ order_book_diff_stream = <<>>
  /\ order_book_snapshot_stream = <<>>
  /\ order_book_trade_stream = <<>>
  /\ trading_pairs = NoneList
  /\ diff_router = NoCounters
  /\ trade_emitter = NoCounters
  /\ refresher = [pc |-> "sleeping", tracking_trading_pairs |-> {},
                  available_trading_pairs |-> pairs]
  /\ env = [messages |-> 0, cycles |-> 1, failures |-> 0, budget |-> budget]
  /\ stopped = FALSE
  /\ processed = [tp \in pairs |-> <<>>]
  /\ discarded = [tp \in Instruments |-> {}]

InitRoute == \E pairs \in {{"A"}, {"A", "B"}} : Tracking(pairs, MaxRouted)

NextRoute ==
  \/ Listen
  \/ Route
  \/ \E tp \in Instruments : WorkerStep(tp)

SpecRoute == InitRoute /\ [][NextRoute]_vars

\* ------------------------------------------------------------- readiness
\* The tracker's lifecycle for every shape of data_source._trading_pairs,
\* with silent streams.
TradingPairsChoices ==
  {NoneList, List(<<>>), List(<<"A">>), List(<<"A", "B">>)}

InitReady == \E pairs \in TradingPairsChoices : Constructed(pairs, 0)

NextReady ==
  \/ start
  \/ start_derived
  \/ stop
  \/ Refresh
  \/ \E tp \in Instruments : WorkerStart(tp)

SpecReady == InitReady /\ [][NextReady]_vars

\* ------------------------------------------------------------ a long run
\* One tracked instrument whose diff listener has run ahead of the router:
\* LongRun diffs with rising update ids wait in the diff stream.  The run
\* stays within one minute of the wall clock.
LongStream == [i \in 1..LongRun |-> DiffMessage("A", i, i)]

InitWindow ==
  /\ tasks = [t \in TaskNames |-> "Running"]
  /\ tracking_tasks = [tp \in {"A"} |-> [pc |-> "Running"]]
  /\ order_books = [tp \in {"A"} |-> NewOrderBook]
  /\ tracking_message_queues = [tp \in {"A"} |-> <<>>]
  /\ past_diffs_windows = [tp \in {"A"} |-> <<>>]
  /\ order_book_diff_stream = LongStream
  /\ order_book_snapshot_stream = <<>>
  /\ order_book_trade_stream = <<>>
  /\ trading_pairs = NoneList
  /\ diff_router = NoCounters
  /\ trade_emitter = NoCounters
  /\ refresher = [pc |-> "sleeping", tracking_trading_pairs |-> {},
                  available_trading_pairs |-> {"A"}]
  /\ env = [messages |-> LongRun, cycles |-> 1, failures |-> 0,
            budget |-> LongRun]
  /\ stopped = FALSE
  /\ processed = [tp \in {"A"} |-> <<>>]
  /\ discarded = [tp \in Instruments |-> {}]

NextWindow ==
  \/ DiffRouterStep(FALSE)
  \/ WorkerStep("A")
  \/ WorkerFail("A")
  \/ WorkerRecover("A")

SpecWindow == InitWindow /\ [][NextWindow]_vars

\* ------------------------------------------------- diffs ahead of a snapshot
\* One tracked instrument; ReplayLen diffs with any update ids (as many ids
\* as diffs) and one snapshot have been received and wait in their streams.
InitReplay ==
  \E uids \in [1..ReplayLen -> 1..ReplayLen], s \in 0..ReplayLen :
    /\ tasks = [t \in TaskNames |-> "Running"]
    /\ tracking_tasks = [tp \in {"A"} |-> [pc |-> "Running"]]
    /\ order_books = [tp \in {"A"} |-> NewOrderBook]
    /\ tracking_message_queues = [tp \in {"A"} |-> <<>>]
    /\ past_diffs_windows = [tp \in {"A"} |-> <<>>]
    /\ order_book_diff_stream =
         [i \in 1..ReplayLen |-> DiffMessage("A", uids[i], i)]
    /\ order_book_snapshot_stream = <<SnapshotMessage("A", s, ReplayLen + 1)>>
    /\ order_book_trade_stream = <<>>
    /\ trading_pairs = NoneList
    /\ diff_router = NoCounters
    /\ trade_emitter = NoCounters
    /\ refresher = [pc |-> "sleeping", tracking_trading_pairs |-> {},
                    available_trading_pairs |-> {"A"}]
    /\ env = [messages |-> ReplayLen + 1, cycles |-> 1, failures |-> 0,
              budget |-> ReplayLen + 1]
    /\ stopped = FALSE
    /\ processed = [tp \in {"A"} |-> <<>>]
    /\ discarded = [tp \in Instruments |-> {}]

NextReplay ==
  \/ \E rolled \in BOOLEAN : DiffRouterStep(rolled)
  \/ SnapshotRouterStep
  \/ WorkerStep("A")

SpecReplay == InitReplay /\ [][NextReplay]_vars

\* ------------------------------------------- a fixed tracked set, failures
\* The same tracker and streams, with the Book State calls of the Workers
\* and of the Trade Emitter allowed to raise.
InitRecover == \E pairs \in {{"A"}, {"A", "B"}} : Tracking(pairs, MaxRouted)

NextRecover ==
  \/ Listen
  \/ Route
  \/ \E tp \in Instruments : WorkerStep(tp)
  \/ Recovery

SpecRecover == InitRecover /\ [][NextRecover]_vars

\* ---------------------------------------------------- fair scheduling
\* Both instruments are tracked and the listeners receive one message more
\* than Book State calls may fail, all within one minute of the wall clock.
\* The event loop runs every task that can run: each Worker, each Router and
\* each recovery delay gets its turn.
InitLive == Tracking(Instruments, MaxFailures + 1)

WorkerTask(tp) == WorkerStep(tp) \/ WorkerFail(tp) \/ WorkerRecover(tp)

DiffRouterTask == DiffRouterStep(FALSE)

NextLive ==
  \/ \E tp \in Instruments, uid \in Uids : ListenDiff(tp, uid)
  \/ \E tp \in Instruments, uid \in Uids : ListenSnapshot(tp, uid)
  \/ DiffRouterTask
  \/ SnapshotRouterStep
  \/ \E tp \in Instruments : WorkerTask(tp)
  \/ stop

SpecLive ==
  /\ InitLive
  /\ [][NextLive]_vars
  /\ \A tp \in Instruments : WF_vars(WorkerTask(tp))
  /\ WF_vars(DiffRouterTask)
  /\ WF_vars(SnapshotRouterStep)

\* ------------------------------------------------------ tracking restarts
\* A is tracked, its Worker has applied one diff and a second diff waits in
\* its queue; the Refresher is about to query the directory, which may drop
\* A and list it again (cycles are counted from here).  MaxRouted more
\* messages for A arrive, within one minute of the wall clock.
InitRestart ==
  LET first == DiffMessage("A", 1, 1)
      second == DiffMessage("A", 2, 2)
  IN /\ tasks = [t \in TaskNames |-> "Running"]
     /\ tracking_tasks = [tp \in {"A"} |-> [pc |-> "Running"]]
     /\ order_books = [tp \in {"A"} |-> apply_diffs(NewOrderBook, 1)]
     /\ tracking_message_queues = [tp \in {"A"} |-> <<second>>]
     /\ past_diffs_windows = [tp \in {"A"} |-> <<first>>]
     /\ order_book_diff_stream = <<>>
     /\ order_book_snapshot_stream = <<>>
     /\ order_book_trade_stream = <<>>
     /\ trading_pairs = NoneList
     /\ diff_router = [messages_accepted |-> 2, messages_rejected |-> 0]
     /\ trade_emitter = NoCounters
     /\ refresher = [pc |-> "query", tracking_trading_pairs |-> {},
                     available_trading_pairs |-> {"A"}]
     /\ env = [messages |-> 2, cycles |-> 0, failures |-> 0,
               budget |-> 2 + MaxRouted]
     /\ stopped = FALSE
     /\ processed = [tp \in {"A"} |-> <<first>>]
     /\ discarded = [tp \in Instruments |-> {}]

NextRestart ==
  \/ RefreshQuery
  \/ \E available_pairs \in SUBSET {"A"} : RefreshComplete(available_pairs)
  \/ RefreshWake
  \/ \E uid \in Uids : ListenDiff("A", uid)
  \/ \E uid \in Uids : ListenSnapshot("A", uid)
  \/ DiffRouterStep(FALSE)
  \/ SnapshotRouterStep
  \/ WorkerStart("A")
  \/ WorkerStep("A")

SpecRestart == InitRestart /\ [][NextRestart]_vars

\* ================================================================ claims
\* the task has been launched and not cancelled
Live(t) == tasks[t] \in {"Running", "Recovering"}

OwnedTasks ==
  { "emit_trade_event_task", "order_book_diff_router_task",
    "order_book_snapshot_router_task", "refresh_tracking_task" }

NoOwnedTaskRunning ==
  /\ \A t \in OwnedTasks : ~Live(t)
  /\ \A tp \in DOMAIN tracking_tasks : done(tracking_tasks[tp])

\* C1: once stop() has been called no owned task (Trade Emitter, Routers,
\* Refresher, any Per-Instrument Worker) is running and no later step
\* mutates a Book State, whatever still waits in the streams and queues.
C1_StopLeavesNothingRunning ==
  [][stopped => (NoOwnedTaskRunning /\ order_books' = order_books)]_vars

\* C7: a Reconciliation Buffer entry exists for an instrument only while a
\* Worker for that instrument is alive.
C7_BufferOnlyWhileWorkerAlive ==
  \A tp \in DOMAIN past_diffs_windows :
    tp \in DOMAIN tracking_tasks /\ ~done(tracking_tasks[tp])

\* the step in which a Refresher cycle completes
RefreshCompletes == refresher.pc = "awaiting" /\ refresher'.pc = "sleeping"

\* C6: a completed Refresher cycle with prior tracked set T and directory
\* result D leaves exactly D with a Book State, a queue and a live Worker:
\* D \ T gets a fresh Book State, an empty queue and a spawned Worker, T \ D
\* loses all three, and the instruments of both keep what they had.
C6_TrackedSetConverges ==
  [][RefreshCompletes =>
       LET T == {tp \in DOMAIN tracking_tasks : ~done(tracking_tasks[tp])}
           D == refresher'.available_trading_pairs
       IN /\ DOMAIN order_books' = D
          /\ DOMAIN tracking_message_queues' = D
          /\ {tp \in DOMAIN tracking_tasks' : ~done(tracking_tasks'[tp])} = D
          /\ DOMAIN tracking_tasks' = D
          /\ \A tp \in D \ T :
               /\ order_books'[tp] = NewOrderBook
               /\ tracking_message_queues'[tp] = <<>>
               /\ tracking_tasks'[tp] = NewWorker
          /\ \A tp \in D \cap T :
               /\ order_books'[tp] = order_books[tp]
               /\ tracking_message_queues'[tp] = tracking_message_queues[tp]
               /\ tracking_tasks'[tp] = tracking_tasks[tp]]_vars

\* a cycle has just added A and removed B
C6_Witness ==
  /\ refresher.pc = "sleeping"
  /\ refresher.tracking_trading_pairs = {"B"}
  /\ refresher.available_trading_pairs = {"A"}
  /\ DOMAIN order_books = {"A"}
  /\ tracking_tasks["A"] = NewWorker

\* ---------------------------------------------------------------- routing
\* the step in which the Diff Router takes the head of the diff stream
DiffTaken ==
  /\ order_book_diff_stream # <<>>
  /\ order_book_diff_stream' = Tail(order_book_diff_stream)

\* the Diff Router's step on a diff for a tracked instrument rejects it
DiffRejected ==
  /\ tracking_message_queues' = tracking_message_queues
  /\ order_books' = order_books
  /\ diff_router'.messages_rejected = diff_router.messages_rejected + 1
  /\ diff_router'.messages_accepted = diff_router.messages_accepted

\* C2 as stated: a diff for a tracked instrument with update_id <=
\* snapshot_uid (equality included) is not forwarded, mutates no Book State
\* and adds one to the rejected counter.
C2_NotNewerDiffRejected ==
  [][(/\ DiffTaken
      /\ Head(order_book_diff_stream).trading_pair \in DOMAIN tracking_message_queues
      /\ Head(order_book_diff_stream).update_id <=
           order_books[Head(order_book_diff_stream).trading_pair].snapshot_uid)
     => DiffRejected]_vars

\* C2 amended: a diff for a tracked instrument with update_id < snapshot_uid
\* is not forwarded, mutates no Book State and adds one to the rejected
\* counter.
C2_OlderDiffRejected ==
  [][(/\ DiffTaken
      /\ Head(order_book_diff_stream).trading_pair \in DOMAIN tracking_message_queues
      /\ Head(order_book_diff_stream).update_id <
           order_books[Head(order_book_diff_stream).trading_pair].snapshot_uid)
     => DiffRejected]_vars

\* both instruments are tracked, A's book has advanced to update id 2, and
\* the router has rejected a diff
C2_Witness ==
  /\ DOMAIN tracking_message_queues = Instruments
  /\ order_books["A"].snapshot_uid = 2
  /\ order_books["B"].snapshot_uid = 0
  /\ diff_router.messages_rejected = 1
  /\ env.messages = 2
  /\ Len(processed["A"]) = 1
  /\ order_book_diff_stream = <<>> /\ order_book_snapshot_stream = <<>>
  /\ order_book_trade_stream = <<>>
  /\ order_books["A"].trades = <<>> /\ order_books["B"].trades = <<>>
  /\ trade_emitter.messages_rejected = 0

\* the step in which tp's Worker applies a message; the message
Applies(tp) ==
  /\ tp \in DOMAIN processed
  /\ tp \in DOMAIN processed'
  /\ Len(processed'[tp]) = Len(processed[tp]) + 1

AppliedMessage(tp) == Head(tracking_message_queues[tp])

\* C3: the Worker never applies a diff whose update_id is below the Book
\* State's snapshot_uid at the moment of application.
C3_NoDiffBelowBaseline ==
  [][\A tp \in Instruments :
       (Applies(tp) /\ AppliedMessage(tp).type = "DIFF")
         => AppliedMessage(tp).update_id >= order_books[tp].snapshot_uid]_vars

\* ----------------------------------------------------------------- replay
\* how often update id u occurs in a sequence of update ids
Occurrences(ids, u) == Cardinality({i \in DOMAIN ids : ids[i] = u})

UidsOf(messages) == [i \in DOMAIN messages |-> messages[i].update_id]

\* C4: when the Worker processes snapshot S the Book State becomes S as
\* baseline followed by exactly the buffered diffs with update_id >
\* S.update_id, every one of the buffer, in ascending order; buffered diffs
\* with update_id <= S.update_id are not re-applied.
C4_SnapshotReplaysNewerDiffs ==
  [][\A tp \in Instruments :
       (Applies(tp) /\ AppliedMessage(tp).type = "SNAPSHOT") =>
         LET S == AppliedMessage(tp)
             buffered == UidsOf(past_diffs_windows[tp])
             replayed == order_books'[tp].diffs
         IN /\ order_books'[tp].base = S.update_id
            /\ \A i \in 1..(Len(replayed) - 1) : replayed[i] <= replayed[i + 1]
            /\ \A u \in {buffered[i] : i \in DOMAIN buffered}
                         \cup {replayed[i] : i \in DOMAIN replayed} :
                 Occurrences(replayed, u) =
                   IF u > S.update_id THEN Occurrences(buffered, u) ELSE 0
            /\ order_books'[tp].snapshot_uid =
                 IF replayed = <<>> THEN S.update_id
                 ELSE replayed[Len(replayed)]
            /\ past_diffs_windows'[tp] = past_diffs_windows[tp]]_vars

\* the buffer held 1, 3, 2 in that order when snapshot 1 was processed: the
\* book is snapshot(1) + 2 + 3
C4_Witness ==
  /\ UidsOf(past_diffs_windows["A"]) = <<1, 3, 2>>
  /\ Len(processed["A"]) = 4
  /\ processed["A"][4].type = "SNAPSHOT"
  /\ processed["A"][4].update_id = 1
  /\ order_books["A"].base = 1
  /\ order_books["A"].diffs = <<2, 3>>

\* ------------------------------------------------------------------ window
IsDiff(message) == message.type = "DIFF"

\* the last n entries of a sequence
LastN(seq, n) == SubSeq(seq, Len(seq) - n + 1, Len(seq))

Min(a, b) == IF a <= b THEN a ELSE b

\* C5: every Reconciliation Buffer holds at most PAST_DIFF_WINDOW_SIZE
\* entries, and they are the most recent min(n, PAST_DIFF_WINDOW_SIZE) of
\* the n diffs its Worker applied, in application order.
C5_WindowHoldsMostRecentDiffs ==
  \A tp \in DOMAIN past_diffs_windows :
    LET applied == SelectSeq(processed[tp], IsDiff)
    IN /\ Len(past_diffs_windows[tp]) <= PAST_DIFF_WINDOW_SIZE
       /\ past_diffs_windows[tp] =
            LastN(applied, Min(Len(applied), PAST_DIFF_WINDOW_SIZE))

\* more diffs than the window holds have been applied, one diff failed
C5_Witness ==
  /\ Len(processed["A"]) = PAST_DIFF_WINDOW_SIZE + 1
  /\ env.failures = 1
  /\ Len(past_diffs_windows["A"]) = PAST_DIFF_WINDOW_SIZE
  /\ past_diffs_windows["A"][1] # processed["A"][1]

\* --------------------------------------------------------------- readiness
\* C8: ready is false while order_books is empty; otherwise it is true
\* exactly when there are at least as many books as desired instruments
\* (with a null or empty desired list: exactly when a book exists).
C8_ReadyCountsBooks ==
  LET books == Cardinality(DOMAIN order_books)
  IN ready =
       IF books = 0 THEN FALSE
       ELSE IF trading_pairs.none \/ trading_pairs.list = <<>> THEN books >= 1
       ELSE books >= Len(trading_pairs.list)

\* two instruments desired, one book: not ready although a book exists
C8_Witness ==
  /\ ~trading_pairs.none
  /\ Len(trading_pairs.list) = 2
  /\ Cardinality(DOMAIN order_books) = 1
  /\ ~ready

\* ---------------------------------------------------------------- ordering
IsSnapshot(message) == message.type = "SNAPSHOT"

\* the messages were received in the order of the sequence
InReceiptOrder(messages) ==
  \A i \in 1..(Len(messages) - 1) :
    messages[i].timestamp < messages[i + 1].timestamp

\* C9: the diffs an instrument's Worker has applied and the diffs still
\* waiting in its queue are in the order in which they were received on the
\* diff stream, and likewise its snapshots: nothing on the way reorders two
\* messages of one stream.
C9_PerStreamOrderKept ==
  \A tp \in DOMAIN tracking_message_queues :
    LET seen == IF tp \in DOMAIN processed THEN processed[tp] ELSE <<>>
        all == seen \o tracking_message_queues[tp]
    IN /\ InReceiptOrder(SelectSeq(all, IsDiff))
       /\ InReceiptOrder(SelectSeq(all, IsSnapshot))
       /\ \A i \in DOMAIN all : all[i].trading_pair = tp

\* A's Worker has applied two diffs
C9_Witness ==
  /\ "A" \in DOMAIN processed
  /\ Len(processed["A"]) = 2
  /\ IsDiff(processed["A"][1])
  /\ IsDiff(processed["A"][2])

\* --------------------------------------------------------------- isolation
\* nothing kept for an instrument other than tp changes in the step
OthersUntouched(tp) ==
  \A other \in Instruments \ {tp} :
    /\ other \in DOMAIN order_books =>
         other \in DOMAIN order_books' /\ order_books'[other] = order_books[other]
    /\ other \in DOMAIN tracking_message_queues =>
         /\ other \in DOMAIN tracking_message_queues'
         /\ tracking_message_queues'[other] = tracking_message_queues[other]
    /\ other \in DOMAIN past_diffs_windows =>
         /\ other \in DOMAIN past_diffs_windows'
         /\ past_diffs_windows'[other] = past_diffs_windows[other]

SnapshotTaken ==
  /\ order_book_snapshot_stream # <<>>
  /\ order_book_snapshot_stream' = Tail(order_book_snapshot_stream)

TradeTaken ==
  /\ order_book_trade_stream # <<>>
  /\ order_book_trade_stream' = Tail(order_book_trade_stream)

\* the step in which tp's Worker takes the head of its queue
QueueTaken(tp) ==
  /\ tp \in DOMAIN tracking_message_queues
  /\ tp \in DOMAIN tracking_message_queues'
  /\ tracking_message_queues[tp] # <<>>
  /\ tracking_message_queues'[tp] = Tail(tracking_message_queues[tp])

\* C10: a step of a Router, the Trade Emitter or a Worker on a message whose
\* instrument key is X changes no Book State, queue or Reconciliation
\* Buffer of another instrument.
C10_MessageTouchesOwnInstrumentOnly ==
  [][/\ DiffTaken =>
          OthersUntouched(Head(order_book_diff_stream).trading_pair)
     /\ SnapshotTaken =>
          OthersUntouched(Head(order_book_snapshot_stream).trading_pair)
     /\ TradeTaken =>
          OthersUntouched(Head(order_book_trade_stream).trading_pair)
     /\ \A tp \in Instruments :
          QueueTaken(tp) =>
            OthersUntouched(Head(tracking_message_queues[tp]).trading_pair)]_vars

\* both instruments are tracked; B's Worker has applied a diff and a trade
\* for A has reached A's book
C10_Witness ==
  /\ DOMAIN order_books = Instruments
  /\ order_books["B"].diffs # <<>>
  /\ order_books["A"].trades # <<>>
  /\ order_books["A"].diffs = <<>>
  /\ order_books["B"].trades = <<>>

\* ------------------------------------------------------------ trade events
\* the accepted counter has counted one more message: it is one higher, or
\* the minute's report that includes the message has been logged and both
\* counters start again at zero
CountedAccepted(before, after) ==
  \/ /\ after.messages_accepted = before.messages_accepted + 1
     /\ after.messages_rejected = before.messages_rejected
  \/ /\ after.messages_accepted = 0
     /\ after.messages_rejected = 0

CountedRejected(before, after) ==
  /\ after.messages_rejected = before.messages_rejected + 1
  /\ after.messages_accepted = before.messages_accepted

\* C11: a Trade message for an instrument without a Book State leaves the
\* Trade Emitter running (no failure recovery), changes no Book State and
\* adds one to the rejected counter; a Trade message for a tracked instrument
\* changes no Book State but that instrument's, and unless the call raises
\* the Book State is the old one with apply_trade of the message's event and
\* the message is counted as accepted.
C11_TradeForUntrackedOnlyCounted ==
  [][TradeTaken =>
       LET trade_message == Head(order_book_trade_stream)
           tp == trade_message.trading_pair
       IN IF tp \notin DOMAIN order_books
          THEN /\ tasks'["emit_trade_event_task"] = "Running"
               /\ order_books' = order_books
               /\ CountedRejected(trade_emitter, trade_emitter')
          ELSE /\ DOMAIN order_books' = DOMAIN order_books
               /\ \A other \in DOMAIN order_books \ {tp} :
                    order_books'[other] = order_books[other]
               /\ tasks'["emit_trade_event_task"] = "Running" =>
                    /\ order_books'[tp] =
                         apply_trade(order_books[tp], TradeEvent(trade_message))
                    /\ order_books'[tp].trades # order_books[tp].trades
                    /\ CountedAccepted(trade_emitter, trade_emitter')]_vars

\* only A is tracked: a trade for B has been rejected, a trade for A has
\* reached A's book, and the emitter has not failed
C11_Witness ==
  /\ DOMAIN order_books = {"A"}
  /\ trade_emitter.messages_rejected = 1
  /\ trade_emitter.messages_accepted = 1
  /\ Len(order_books["A"].trades) = 1
  /\ env.failures = 0
  /\ tasks["emit_trade_event_task"] = "Running"
  /\ order_book_trade_stream = <<>>

\* ------------------------------------------------------- diffs forwarded
\* C12: a diff taken from the diff stream for a tracked instrument whose
\* update_id is not below the Book State's snapshot_uid at that moment
\* (equal ids included) is appended to that instrument's inbound queue, to no
\* other queue, and counted as accepted; a diff for an instrument without an
\* inbound queue is counted as rejected and changes no queue.
C12_FreshDiffForwarded ==
  [][DiffTaken =>
       LET ob_message == Head(order_book_diff_stream)
           tp == ob_message.trading_pair
       IN IF tp \notin DOMAIN tracking_message_queues
          THEN /\ tracking_message_queues' = tracking_message_queues
               /\ CountedRejected(diff_router, diff_router')
          ELSE ~(order_books[tp].snapshot_uid > ob_message.update_id) =>
                 /\ tracking_message_queues' =
                      [tracking_message_queues EXCEPT
                         ![tp] = Append(@, ob_message)]
                 /\ CountedAccepted(diff_router, diff_router')]_vars

\* A's book stands at update id 1 and a second diff with update id 1 has
\* been forwarded to A's queue; no diff has been rejected
C12_Witness ==
  /\ order_books["A"].snapshot_uid = 1
  /\ Len(tracking_message_queues["A"]) = 1
  /\ IsDiff(tracking_message_queues["A"][1])
  /\ tracking_message_queues["A"][1].update_id = 1
  /\ tracking_message_queues["A"][1].timestamp = 2
  /\ diff_router.messages_accepted = 2
  /\ diff_router.messages_rejected = 0

\* ---------------------------------------------------- snapshots forwarded
\* C13: a snapshot taken from the snapshot stream whose instrument has an
\* inbound queue is appended to that queue, whatever its update_id is
\* against the Book State's snapshot_uid and the buffered diffs; a snapshot
\* for an instrument without a queue changes no queue; neither changes a
\* Book State.
C13_SnapshotAlwaysForwarded ==
  [][SnapshotTaken =>
       LET ob_message == Head(order_book_snapshot_stream)
           tp == ob_message.trading_pair
       IN /\ order_books' = order_books
          /\ past_diffs_windows' = past_diffs_windows
          /\ tracking_message_queues' =
               IF tp \in DOMAIN tracking_message_queues
               THEN [tracking_message_queues EXCEPT ![tp] = Append(@, ob_message)]
               ELSE tracking_message_queues]_vars

\* A's book stands at update id 2, its buffer holds the diff with update id
\* 2, and a snapshot with update id 1 waits in A's queue
C13_Witness ==
  /\ order_books["A"].snapshot_uid = 2
  /\ UidsOf(past_diffs_windows["A"]) = <<2>>
  /\ Len(tracking_message_queues["A"]) = 1
  /\ IsSnapshot(tracking_message_queues["A"][1])
  /\ tracking_message_queues["A"][1].update_id = 1

\* ------------------------------------------------------------- task states
\* the moves of the state machine {Running, Recovering, Cancelled} of a
\* launched task
TaskMoves ==
  { <<"None", "Running">>, <<"Running", "Recovering">>,
    <<"Recovering", "Running">>, <<"Running", "Cancelled">>,
    <<"Recovering", "Cancelled">> }

\* a Worker in the map is in its loop (or about to enter it) or in its
\* recovery delay; cancelling it takes it out of the map
WorkerMoves ==
  { <<"Created", "Running">>, <<"Running", "Recovering">>,
    <<"Recovering", "Running">> }

\* C14: every task handle and every Worker moves only along None -> Running,
\* Running -> Recovering (a failure in the loop body), Recovering -> Running
\* (the delay is over) and Running or Recovering -> Cancelled, so a failure
\* never ends a task; and only a Running task takes a message or runs a
\* refresh step: a cancelled or recovering Router, Trade Emitter, Refresher
\* or Worker processes nothing.
C14_TasksRunRecoverOrCancel ==
  [][/\ \A t \in TaskNames :
          tasks'[t] # tasks[t] => <<tasks[t], tasks'[t]>> \in TaskMoves
     /\ \A tp \in DOMAIN tracking_tasks \cap DOMAIN tracking_tasks' :
          tracking_tasks'[tp] # tracking_tasks[tp] =>
            \/ <<tracking_tasks[tp].pc, tracking_tasks'[tp].pc>> \in WorkerMoves
            \/ tracking_tasks'[tp] = NewWorker
     /\ \A tp \in DOMAIN tracking_tasks' : ~done(tracking_tasks'[tp])
     /\ DiffTaken => tasks["order_book_diff_router_task"] = "Running"
     /\ SnapshotTaken => tasks["order_book_snapshot_router_task"] = "Running"
     /\ TradeTaken => tasks["emit_trade_event_task"] = "Running"
     /\ \A tp \in Instruments :
          QueueTaken(tp) =>
            tp \in DOMAIN tracking_tasks /\ tracking_tasks[tp].pc = "Running"
     /\ (\/ DOMAIN tracking_tasks' # DOMAIN tracking_tasks
         \/ DOMAIN order_books' # DOMAIN order_books
         \/ DOMAIN tracking_message_queues' # DOMAIN tracking_message_queues
         \/ refresher' # refresher)
          => \/ tasks["refresh_tracking_task"] = "Running"
             \/ /\ tasks["refresh_tracking_task"] = "Recovering"
                /\ tasks'["refresh_tracking_task"] = "Running"]_vars

\* the Refresher's first directory query failed and stop() cancelled the
\* Refresher during the retry delay
C14_Witness ==
  /\ tasks["refresh_tracking_task"] = "Cancelled"
  /\ refresher.pc = "awaiting"
  /\ env.cycles = 1
  /\ env.failures = 1
  /\ env.messages = 0
  /\ tracking_tasks = EmptyDict

\* ---------------------------------------------------------------- liveness
\* the message with receipt stamp ts waits in tp's inbound queue
Queued(tp, ts) ==
  /\ tp \in DOMAIN tracking_message_queues
  /\ ts \in Stamps(tracking_message_queues[tp])

\* C15: with every task scheduled fairly, a message that waits in the
\* inbound queue of a tracked instrument is eventually taken from it by the
\* instrument's Worker (or the instrument is no longer tracked), whatever
\* fails in the Worker of the other instrument.
C15_QueuedMessageEventuallyConsumed ==
  \A tp \in Instruments, ts \in 1..(MaxFailures + 1) :
    Queued(tp, ts) ~> (~Queued(tp, ts) \/ tp \notin DOMAIN tracking_tasks)

\* A's Worker has failed on the only message it got and sits in its
\* recovery delay; B's Worker has consumed the message routed to B
C15_Witness ==
  /\ tracking_tasks["A"].pc = "Recovering"
  /\ processed["A"] = <<>>
  /\ env.failures = 1
  /\ Len(processed["B"]) = 1
  /\ tracking_message_queues["B"] = <<>>
  /\ ~stopped

\* ------------------------------------------------------------------ frames
\* the instruments with a Book State, with an inbound queue, with a Worker
TrackedKeys ==
  << DOMAIN order_books, DOMAIN tracking_message_queues, DOMAIN tracking_tasks >>

\* C16: the key sets of the Book State map, the inbound queue map and the
\* Worker map change only in the step in which a Refresher cycle completes;
\* a step in which a Router, the Trade Emitter or a Worker takes a message
\* leaves all three key sets as they are.
C16_OnlyRefresherChangesKeys ==
  [][/\ TrackedKeys' # TrackedKeys => RefreshCompletes
     /\ (\/ DiffTaken
         \/ SnapshotTaken
         \/ TradeTaken
         \/ \E tp \in Instruments : QueueTaken(tp))
          => TrackedKeys' = TrackedKeys]_vars

\* A is tracked, a diff for A has gone through the Diff Router and A's
\* Worker has applied it
C16_Witness ==
  /\ TrackedKeys = << {"A"}, {"A"}, {"A"} >>
  /\ diff_router.messages_accepted = 1
  /\ "A" \in DOMAIN processed
  /\ Len(processed["A"]) = 1
  /\ order_books["A"].diffs # <<>>

\* ----------------------------------------------------------------- restart
\* the step in which a Refresher cycle starts tracking tp
TrackingStarts(tp) ==
  tp \notin DOMAIN tracking_tasks /\ tp \in DOMAIN tracking_tasks'

\* the step in which tp's Worker enters its loop
WorkerEntersLoop(tp) ==
  /\ tp \in DOMAIN tracking_tasks /\ tp \in DOMAIN tracking_tasks'
  /\ tracking_tasks[tp].pc = "Created"
  /\ tracking_tasks'[tp].pc = "Running"

\* C17: an instrument that is tracked again gets an empty inbound queue, its
\* new Worker enters its loop with an empty Reconciliation Buffer, and no
\* message that waited in the queue or the buffer when the earlier tracking
\* was removed is applied by a Worker or is among the diffs a Worker hands to
\* restore_from_snapshot_and_diffs.
C17_RestartStartsEmpty ==
  [][\A tp \in Instruments :
       /\ TrackingStarts(tp) =>
            /\ tracking_message_queues'[tp] = <<>>
            /\ tracking_tasks'[tp] = NewWorker
       /\ WorkerEntersLoop(tp) =>
            /\ past_diffs_windows'[tp] = <<>>
            /\ Stamps(tracking_message_queues'[tp]) \cap discarded[tp] = {}
       /\ Applies(tp) =>
            /\ AppliedMessage(tp).timestamp \notin discarded[tp]
            /\ AppliedMessage(tp).type = "SNAPSHOT" =>
                 Stamps(PastDiffs(past_diffs_windows[tp])) \cap discarded[tp] = {}]_vars

\* A was dropped with one diff in its buffer and one in its queue and is
\* tracked again; the new Worker has applied a diff and then a snapshot
C17_Witness ==
  /\ discarded["A"] = {1, 2}
  /\ "A" \in DOMAIN tracking_tasks
  /\ tracking_tasks["A"].pc = "Running"
  /\ Len(processed["A"]) = 2
  /\ IsDiff(processed["A"][1])
  /\ IsSnapshot(processed["A"][2])
  /\ Len(past_diffs_windows["A"]) = 1

\* -------------------------------------------------------------- key sets
\* C18: in every state between two steps of the tasks the Book State map,
\* the inbound queue map and the Worker map have the same key set, and
\* every Worker of the map is alive; so an instrument found in the queue
\* map has a Book State.
C18_MapsShareKeys ==
  /\ DOMAIN order_books = DOMAIN tracking_message_queues
  /\ DOMAIN tracking_message_queues = DOMAIN tracking_tasks
  /\ \A tp \in DOMAIN tracking_tasks : ~done(tracking_tasks[tp])

\* a cycle that found A tracked has dropped A and started B, and a message
\* has been received since
C18_Witness ==
  /\ refresher.pc = "sleeping"
  /\ refresher.tracking_trading_pairs = {"A"}
  /\ TrackedKeys = << {"B"}, {"B"}, {"B"} >>
  /\ env.messages = 1

\* ---------------------------------------------------------- failed refresh
\* the step in which a Refresher cycle begins, and the one in which its
\* directory query fails
RefreshBegins == refresher.pc = "query" /\ refresher'.pc = "awaiting"

RefreshFails ==
  /\ tasks["refresh_tracking_task"] = "Running"
  /\ tasks'["refresh_tracking_task"] = "Recovering"

TrackingUnchanged ==
  /\ order_books' = order_books
  /\ tracking_message_queues' = tracking_message_queues
  /\ tracking_tasks' = tracking_tasks
  /\ past_diffs_windows' = past_diffs_windows

\* C19: the beginning of a Refresher cycle and the failure of its directory
\* query change no Book State, queue or Worker, and at the failure the three
\* maps have the keys, all with live Workers, that the cycle found at its
\* beginning; the Refresher is then in its retry delay, which it can always
\* leave, and it leaves it only to begin a cycle again or by cancellation.
C19_FailedRefreshChangesNothing ==
  [][/\ RefreshBegins => TrackingUnchanged
     /\ RefreshFails =>
          /\ TrackingUnchanged
          /\ TrackedKeys = << refresher.tracking_trading_pairs,
                              refresher.tracking_trading_pairs,
                              refresher.tracking_trading_pairs >>
          /\ \A tp \in DOMAIN tracking_tasks : ~done(tracking_tasks[tp])
     /\ tasks["refresh_tracking_task"] = "Recovering" =>
          /\ ENABLED RefreshRecover
          /\ \/ tasks'["refresh_tracking_task"] = "Recovering"
                   /\ refresher' = refresher
             \/ tasks'["refresh_tracking_task"] = "Cancelled"
             \/ /\ tasks'["refresh_tracking_task"] = "Running"
                /\ refresher'.pc = "query"
                /\ TrackingUnchanged]_vars

\* the first directory query failed; the Refresher retried and the second
\* cycle has started tracking A
C19_Witness ==
  /\ env.failures = 1
  /\ env.messages = 0
  /\ env.cycles = 2
  /\ tasks["refresh_tracking_task"] = "Running"
  /\ refresher.pc = "sleeping"
  /\ TrackedKeys = << {"A"}, {"A"}, {"A"} >>

\* ---------------------------------------------------------- failed message
\* the step in which tp's Worker fails on a message, and the one in which
\* its recovery delay ends
WorkerFails(tp) ==
  /\ tp \in DOMAIN tracking_tasks /\ tp \in DOMAIN tracking_tasks'
  /\ tracking_tasks[tp].pc = "Running"
  /\ tracking_tasks'[tp].pc = "Recovering"

WorkerResumes(tp) ==
  /\ tp \in DOMAIN tracking_tasks /\ tp \in DOMAIN tracking_tasks'
  /\ tracking_tasks[tp].pc = "Recovering"
  /\ tracking_tasks'[tp].pc = "Running"

\* what a step can do to a queue: nothing, take its head, or append the head
\* of one of the two streams that feed it
QueueMoves(queue) ==
  {queue}
    \cup (IF queue = <<>> THEN {} ELSE {Tail(queue)})
    \cup (IF order_book_diff_stream = <<>> THEN {}
          ELSE {Append(queue, Head(order_book_diff_stream))})
    \cup (IF order_book_snapshot_stream = <<>> THEN {}
          ELSE {Append(queue, Head(order_book_snapshot_stream))})

\* C20: the message on which a Worker fails is taken from the queue and
\* dropped: it is not appended to the Reconciliation Buffer, which stays as
\* it was, it is not applied and it is not put back (a queue only ever loses
\* its head or gains the head of a stream, and a stream only gains newly
\* received messages); the end of the recovery delay changes no queue,
\* buffer or Book State, and the next message the Worker applies is the head
\* of its queue.
C20_FailedMessageDropped ==
  [][/\ \A tp \in Instruments :
          /\ WorkerFails(tp) =>
               /\ tracking_message_queues[tp] # <<>>
               /\ tracking_message_queues'[tp] = Tail(tracking_message_queues[tp])
               /\ past_diffs_windows' = past_diffs_windows
               /\ processed' = processed
               /\ Head(tracking_message_queues[tp]).timestamp
                    \notin Stamps(tracking_message_queues'[tp])
                           \cup Stamps(past_diffs_windows'[tp])
          /\ WorkerResumes(tp) =>
               /\ order_books' = order_books
               /\ tracking_message_queues' = tracking_message_queues
               /\ past_diffs_windows' = past_diffs_windows
          /\ Applies(tp) =>
               /\ tracking_tasks[tp].pc = "Running"
               /\ processed'[tp] =
                    Append(processed[tp], Head(tracking_message_queues[tp]))
               /\ tracking_message_queues'[tp] = Tail(tracking_message_queues[tp])
          /\ tp \in DOMAIN tracking_message_queues =>
               tracking_message_queues'[tp] \in QueueMoves(tracking_message_queues[tp])
     /\ \A stream \in {1, 2} :
          streams'[stream] # streams[stream] =>
            \/ /\ streams[stream] # <<>>
               /\ streams'[stream] = Tail(streams[stream])
            \/ /\ streams'[stream] = Append(streams[stream],
                                             streams'[stream][Len(streams'[stream])])
               /\ streams'[stream][Len(streams'[stream])].timestamp = env.messages + 1
               /\ env'.messages = env.messages + 1]_vars

\* two diffs for A went through the router; A's Worker failed on the first,
\* sat out its delay and applied the second
C20_Witness ==
  /\ env.messages = 2
  /\ env.failures = 1
  /\ diff_router.messages_accepted = 2
  /\ tracking_tasks["A"].pc = "Running"
  /\ Len(processed["A"]) = 1
  /\ processed["A"][1].timestamp = 2
  /\ UidsOf(past_diffs_windows["A"]) = <<processed["A"][1].update_id>>
  /\ tracking_message_queues["A"] = <<>>

====
